---------------------------- MODULE Spec2Model ----------------------------
(***************************************************************************)
(* pulsardb: the REST client (pulsardb/__init__.py) and the tim-file       *)
(* aggregation routine fromtim (pulsardb/fromtim.py).                      *)
(*                                                                         *)
(* Conventions of the model.                                               *)
(*  - Python's None is the string "None".                                  *)
(*  - An astropy Time is the number of seconds since MJD 0, a float MJD is  *)
(*    held in the same unit, and a duration is a number of seconds.        *)
(*  - A tim-file flag value is a string, as in the file; float() parses    *)
(*    it.                                                                  *)
(*  - A frequency mean is truncated to a whole MHz.                        *)
(***************************************************************************)
EXTENDS Integers, Sequences, FiniteSets, TLC

VARIABLES
    API_KEY,      \* pulsardb.API_KEY: $PULSAR_API_KEY at import, or None
    http,         \* every HTTP request issued so far, with its status code
    calls,        \* every call of a pulsardb API function made so far
    ret,          \* value returned by the last direct API call
    pc,           \* where the running program is
    args,         \* the arguments fromtim was called with
    timfile,      \* the TOAs the tim file holds
    server,       \* the telescope rows the database would serve
    telescopes,   \* fromtim: result of Telescopes.get(format="table")
    toas,         \* fromtim: the TOAs read from the tim file
    todo,         \* fromtim: names of np.unique(names) not yet iterated
    duration,     \* fromtim: the local of that name
    receiver,     \* fromtim: the local of that name
    backend,      \* fromtim: the local of that name
    project,      \* fromtim: the local of that name
    telescope,    \* fromtim: the local of that name
    out,          \* fromtim: the text built so far, one element per line
    log           \* fromtim: the observations logged by log.info (line 105)

vars == <<API_KEY, http, calls, ret, pc, args, timfile, server, telescopes,
          toas, todo, duration, receiver, backend, project, telescope, out,
          log>>

timvars == <<args, timfile, server, telescopes, toas, todo, duration,
             receiver, backend, project, telescope, out, log>>

None == "None"

(***************************************************************************)
(* Bounds of the model.                                                    *)
(***************************************************************************)
MaxToas == 3      \* TOAs in a tim file
MaxSetupToas == 2 \* TOAs in a tim file when the arguments and the table vary
MaxCalls == 2     \* direct API calls in a client session

(***************************************************************************)
(* Values.  A value that may be None is a record with a type field.        *)
(***************************************************************************)
NoneValue == [kind |-> "None"]

NoneType == [type |-> "NoneType"]

TimeOf(secs) == [type |-> "Time", secs |-> secs]

FloatOf(x) == [type |-> "float", value |-> x]

Quantity(x, unit) == [type |-> "Quantity", value |-> x, unit |-> unit]

\* an MJD read from the tim file, in days, as a Time
SecondsOf(mjd) == mjd * 86400

\* Time.mjd; a float MJD is held in units of 1/86400 day, which keeps it exact
MjdOf(t) == t.secs

\* Quantity.to_value(u.MHz)
to_value_MHz(q) == IF q.unit = "GHz" THEN q.value * 1000 ELSE q.value

(***************************************************************************)
(* pulsardb/__init__.py: module constants.                                 *)
(***************************************************************************)
_url == "http://localhost:8000/api/"

_json_header == [Accept |-> "application/json"]

\* the header built from a key: {"Authorization": f"Api-Key {key}"}
AuthHeader(key) == [Authorization |-> "Api-Key " \o key]

\* module-level _auth_header: built from $PULSAR_API_KEY, or None
_auth_header(envkey) ==
    IF envkey # None THEN AuthHeader(envkey) ELSE NoneValue

PulsarsEndpoint == "pulsars-api/"

PulsarsAliasEndpoint == "pulsaraliases-api/"

TelescopesEndpoint == "telescopes-api/"

ObservationsEndpoint == "observations-api/"

\* str.lower() on the format names in use
Lower(s) ==
    CASE s = "JSON" -> "json"
      [] s = "Pandas" -> "pandas"
      [] s = "TABLE" -> "table"
      [] OTHER -> s

\* _convert_time: a Time (or a float MJD) to an ISO string; any other type
\* falls off the end of the if-chain and gives None
_convert_time(t) ==
    CASE t.type = "Time" -> [isot |-> t.secs]
      [] t.type = "float" -> [isot |-> t.value]
      [] OTHER -> NoneValue

\* the status codes the server answers with
GetStatuses == {200, 404}

PostStatuses == {201, 400}

(***************************************************************************)
(* GET wrappers.  One requests.get, then the data in the asked format on   *)
(* status 200 and the raw response otherwise.                              *)
(***************************************************************************)
GetRequest(endpoint, params, status) ==
    [method |-> "GET", url |-> _url \o endpoint, headers |-> _json_header,
     body |-> params, status |-> status]

Response(req) == [kind |-> "response", status_code |-> req.status]

\* a wrapper that returns None when the request did not succeed
GetResultNone(req, format, body) ==
    IF req.status = 200
    THEN [kind |-> Lower(format),
          data |-> IF Lower(format) = "json" THEN body ELSE body.results]
    ELSE NoneValue

\* a wrapper that returns data without rows when the request did not succeed
GetResultEmptyOnFailure(req, format, body) ==
    [kind |-> Lower(format),
     data |-> IF req.status # 200 THEN <<>>
              ELSE IF Lower(format) = "json" THEN body ELSE body.results]

\* the branch on response.status_code and on format.lower(); `body` is
\* response.json()
GetResult(req, format, body) ==
    IF req.status = 200
    THEN CASE Lower(format) = "json" -> [kind |-> "json", data |-> body]
           [] Lower(format) = "pandas" ->
                [kind |-> "pandas", data |-> body.results]
           [] Lower(format) = "table" ->
                [kind |-> "table", data |-> body.results]
    ELSE Response(req)

\* the entries of a dict that were set: the keys whose argument is not None
Present(q, keys) == {k \in keys : q[k].type # "NoneType"}

\* Pulsars.get: [reqs |-> requests issued, result |-> value returned]
PulsarsGetData(q) == [k \in Present(q, {"name"}) |-> q[k].value]

PulsarsGet(q, format, status, body) ==
    LET req == GetRequest(PulsarsEndpoint, PulsarsGetData(q), status)
    IN  [reqs |-> <<req>>, result |-> GetResult(req, format, body)]

\* Telescopes.get
TelescopesGet(format, status, body) ==
    LET req == GetRequest(TelescopesEndpoint, <<>>, status)
    IN  [reqs |-> <<req>>, result |-> GetResult(req, format, body)]

\* Observations.get: lines 251-281 build the query
ObservationsGetData(q) ==
    [k \in Present(q, {"pulsar", "telescope", "receiver", "backend",
                       "project", "min_MJD", "max_MJD", "min_frequency",
                       "max_frequency"}) |->
        CASE q[k].type = "Time" -> MjdOf(q[k])
          [] q[k].type = "Quantity" -> to_value_MHz(q[k])
          [] OTHER -> q[k].value]

ObservationsGet(q, format, status, body) ==
    LET req == GetRequest(ObservationsEndpoint, ObservationsGetData(q), status)
    IN  [reqs |-> <<req>>, result |-> GetResult(req, format, body)]

(***************************************************************************)
(* POST wrappers.                                                          *)
(***************************************************************************)
PostRequest(endpoint, json, headers, status) ==
    [method |-> "POST", url |-> _url \o endpoint, headers |-> headers,
     body |-> json, status |-> status]

\* a key check with the test on the argument inverted
NoKeyWrong(envkey, key) == envkey = None /\ key # None

\* lines 122 and 346: neither an environment key nor a key argument
NoKey(envkey, key) == envkey = None /\ key = None

\* a header that prefers the environment's key to the argument
PostHeaderEnvFirst(envkey, key) ==
    IF envkey # None THEN AuthHeader(envkey) ELSE AuthHeader(key)

\* lines 127-130 and 351-354: a key argument wins over the environment's
PostHeader(envkey, key) ==
    IF key # None THEN AuthHeader(key) ELSE _auth_header(envkey)

\* a post that gives up on the aliases when the pulsar was not added
PulsarsPostStopOnFailure(envkey, c, statuses) ==
    IF envkey = None /\ c.key = None
    THEN [reqs |-> <<>>, result |-> NoneValue]
    ELSE LET h == IF c.key # None THEN AuthHeader(c.key)
                  ELSE AuthHeader(envkey)
             first == PostRequest(PulsarsEndpoint,
                                  [name |-> c.name, ra |-> c.ra,
                                   dec |-> c.dec], h, statuses[1])
             n == IF c.aliases.type = "NoneType" \/ statuses[1] # 201 THEN 0
                  ELSE Len(c.aliases.value)
             more == [i \in 1..n |->
                        PostRequest(PulsarsAliasEndpoint,
                                    [name |-> c.aliases.value[i],
                                     pulsar |-> c.name], h, statuses[i + 1])]
             reqs == <<first>> \o more
         IN  [reqs |-> reqs,
              result |->
                IF n > 0
                THEN [kind |-> "list",
                      items |-> [i \in 1..Len(reqs) |-> Response(reqs[i])]]
                ELSE Response(first)]

\* Pulsars.post: the pulsar POST, then one alias POST per alias; statuses[i]
\* answers the i-th request
PulsarsPost(envkey, c, statuses) ==
    IF NoKey(envkey, c.key)
    THEN [reqs |-> <<>>, result |-> NoneValue]
    ELSE LET h == PostHeader(envkey, c.key)
             first == PostRequest(PulsarsEndpoint,
                                  [name |-> c.name, ra |-> c.ra,
                                   dec |-> c.dec], h, statuses[1])
             n == IF c.aliases.type = "NoneType" THEN 0
                  ELSE Len(c.aliases.value)
             more == [i \in 1..n |->
                        PostRequest(PulsarsAliasEndpoint,
                                    [name |-> c.aliases.value[i],
                                     pulsar |-> c.name], h, statuses[i + 1])]
             reqs == <<first>> \o more
         IN  [reqs |-> reqs,
              result |->
                IF n > 0
                THEN [kind |-> "list",
                      items |-> [i \in 1..Len(reqs) |-> Response(reqs[i])]]
                ELSE Response(first)]

\* lines 355-369: the JSON content of an observation
ObservationsContent(c) ==
    [pulsar |-> c.pulsar, telescope |-> c.telescope, receiver |-> c.receiver,
     backend |-> c.backend,
     frequency |-> IF c.frequency.type = "Quantity"
                   THEN to_value_MHz(c.frequency) ELSE c.frequency.value,
     submitter |-> c.submitter, project |-> c.project,
     datetime_range |-> [lower |-> _convert_time(c.start),
                         upper |-> _convert_time(c.stop)],
     notes |-> c.notes]

\* Observations.post(..., key=c.key), the request answered with `status`
ObservationsPost(envkey, c, status) ==
    IF NoKey(envkey, c.key)
    THEN [reqs |-> <<>>, result |-> NoneValue]
    ELSE LET req == PostRequest(ObservationsEndpoint, ObservationsContent(c),
                                PostHeader(envkey, c.key), status)
         IN  [reqs |-> <<req>>, result |-> Response(req)]

\* the record of one API call: what was called, the requests it issued and
\* the value it returned
Call(api, a, r) ==
    [api |-> api, args |-> a, reqs |-> r.reqs, result |-> r.result]

(***************************************************************************)
(* fromtim                                                                 *)
(***************************************************************************)
Header ==
    <<"# Start", "Stop", "Pulsar", "Project", "Telescope", "Receiver",
      "Backend", "Frequency", "Submitter">>

\* float() on the duration flag values in use
Float(s) ==
    CASE s = "600" -> 600
      [] s = "1200" -> 1200
      [] s = "1800" -> 1800

\* pint's TOAs.get_flag_value(flag, fill_value)[0]: per TOA, the flag's
\* value, or fill_value where the TOA does not carry the flag
get_flag_value(sel, flag, fill_value) ==
    [i \in 1..Len(sel) |->
        IF flag \in DOMAIN sel[i].flags THEN sel[i].flags[flag]
        ELSE fill_value]

\* the same with as_type=float, for the duration flag: float() is called on
\* the flags that are present, and the fill value is taken as it stands
get_flag_float(sel, flag, fill_value) ==
    [i \in 1..Len(sel) |->
        IF flag \in DOMAIN sel[i].flags THEN Float(sel[i].flags[flag])
        ELSE fill_value]

RECURSIVE Sum(_)
Sum(s) == IF s = <<>> THEN 0 ELSE Head(s) + Sum(Tail(s))

RECURSIVE Min(_)
Min(s) ==
    IF Len(s) = 1 THEN Head(s)
    ELSE LET m == Min(Tail(s)) IN IF Head(s) < m THEN Head(s) ELSE m

Mean(s) == Sum(s) \div Len(s)

\* np.unique(names): the distinct names in ascending order
RECURSIVE SortedSeq(_)
SortedSeq(S) ==
    IF S = {} THEN <<>>
    ELSE LET m == CHOOSE x \in S : \A y \in S : x <= y
         IN  <<m>> \o SortedSeq(S \ {m})

\* a loop over the names as they stand in the file
UniqueUnsorted(names) == names

Unique(names) == SortedSeq({names[i] : i \in 1..Len(names)})

\* toas[names == name]
Select(ts, name) == SelectSeq(ts, LAMBDA t : t.name = name)

\* list(telescopes[telescopes["name"] == telname][col])[0]: the column's
\* value in the first row that carries the name
FirstRow(table, telname) ==
    table[CHOOSE i \in 1..Len(table) :
            /\ table[i].name = telname
            /\ \A j \in 1..(i - 1) : table[j].name # telname]

\* lines 95-103: every row is tried in table order and a match overwrites
RECURSIVE Resolve(_, _, _, _, _)
Resolve(table, i, rcv, bck, tel) ==
    IF i > Len(table) THEN tel
    ELSE LET telname == table[i].name
             hit == /\ rcv \in FirstRow(table, telname).receivers
                    /\ bck \in FirstRow(table, telname).backends
         IN  Resolve(table, i + 1, rcv, bck, IF hit THEN telname ELSE tel)

\* line 109: the text line of an observation
Line(start, stop, o) ==
    <<MjdOf(start), MjdOf(stop), args.pulsar, o.project, o.telescope,
      o.receiver, o.backend, to_value_MHz(o.frequency), args.submitter>>

\* lines 112-123: the arguments of the Observations.post call
PostArgs(start, stop, o) ==
    [pulsar |-> args.pulsar, telescope |-> o.telescope,
     frequency |-> o.frequency, project |-> o.project,
     start |-> start, stop |-> stop,
     receiver |-> o.receiver, backend |-> o.backend,
     submitter |-> args.submitter, notes |-> "", key |-> args.apikey]

\* lines 70-76: fetch the telescope table, read the tim file, start the text
Begin ==
    /\ pc = "call"
    /\ \E status \in GetStatuses :
          LET r == TelescopesGet("table", status, [results |-> server])
          IN  /\ http' = http \o r.reqs
              /\ telescopes' = r.result
              /\ calls' = Append(calls,
                                 Call("Telescopes.get", [format |-> "table"], r))
    /\ toas' = timfile
    /\ todo' = Unique([i \in 1..Len(timfile) |-> timfile[i].name])
    /\ out' = <<Header>>
    /\ pc' = "loop"
    /\ UNCHANGED <<API_KEY, ret, args, timfile, server, duration, receiver,
                   backend, project, telescope, log>>

\* lines 77-94: what one pass of the loop derives from the selected TOAs
Derived(name) ==
    LET sel == Select(toas, name)
        dur == Sum(get_flag_float(sel, args.durationflag, duration))
    IN  [name |-> name,
         frequency |-> Quantity(Mean([i \in 1..Len(sel) |-> sel[i].freq]),
                                "MHz"),
         start |-> TimeOf(SecondsOf(Min([i \in 1..Len(sel) |-> sel[i].mjd]))),
         duration |-> dur,
         receiver |-> get_flag_value(sel, args.receiverflag, receiver)[1],
         backend |-> get_flag_value(sel, args.backendflag, backend)[1],
         project |-> get_flag_value(sel, args.projectflag, project)[1]]

\* a lookup that starts from whatever the previous pass left in `telescope`
LookupStartCarried == telescope

\* line 95: the value the telescope lookup starts from
LookupStart == args.telescope

\* an emission that does not look at the telescope
EmitAlways(o) == TRUE

\* line 108: whether the observation is emitted
Emit(o) == o.telescope # None

\* a submission that does not look at db
SubmitAlways == TRUE

\* line 111: whether the record is submitted
Submit == args.db

\* a loop that gives up at the first submission that did not answer 201
AfterPostChecked(response) ==
    IF response.kind = "response" /\ response.status_code = 201
    THEN "loop" ELSE "raised"

\* lines 112-123: the response is assigned and never looked at, so the loop
\* goes on whatever Observations.post returned
AfterPost(response) == "loop"

\* lines 77-127: one pass of the loop, for the next distinct name
Iterate ==
    /\ pc = "loop"
    /\ todo # <<>>
    /\ LET d == Derived(Head(todo))
       IN  /\ duration' = d.duration
           /\ receiver' = d.receiver
           /\ backend' = d.backend
           /\ project' = d.project
           /\ IF telescopes.kind # "table"
              THEN \* telescopes["name"] on a raw response raises
                   /\ pc' = "raised"
                   /\ telescope' = LookupStart
                   /\ UNCHANGED <<todo, out, log, calls, http>>
              ELSE LET tel == Resolve(telescopes.data, 1, d.receiver,
                                      d.backend, LookupStart)
                       o == d @@ [telescope |-> tel]
                       stop == TimeOf(d.start.secs + d.duration)
                   IN  /\ telescope' = tel
                       /\ log' = Append(log, o @@ [stop |-> stop])
                       /\ todo' = Tail(todo)
                       /\ IF Emit(o)
                          THEN /\ out' = Append(out, Line(d.start, stop, o))
                               /\ IF Submit
                                  THEN \E status \in PostStatuses :
                                         LET c == PostArgs(d.start, stop, o)
                                             r == ObservationsPost(API_KEY, c,
                                                                   status)
                                         IN  /\ calls' = Append(calls,
                                                   Call("Observations.post",
                                                        c, r))
                                             /\ http' = http \o r.reqs
                                             /\ pc' = AfterPost(r.result)
                                  ELSE /\ pc' = "loop"
                                       /\ UNCHANGED <<calls, http>>
                          ELSE /\ pc' = "loop"
                               /\ UNCHANGED <<out, calls, http>>
    /\ UNCHANGED <<API_KEY, ret, args, timfile, server, telescopes, toas>>

\* line 128: return out
Return ==
    /\ pc = "loop"
    /\ todo = <<>>
    /\ pc' = "returned"
    /\ ret' = [kind |-> "text", lines |-> out]
    /\ UNCHANGED <<API_KEY, http, calls, args, timfile, server, telescopes,
                   toas, todo, duration, receiver, backend, project,
                   telescope, out, log>>

(***************************************************************************)
(* Inputs of fromtim.                                                      *)
(***************************************************************************)
FlagNames == {"tobs", "fe", "be", "pta"}

\* the flags of one TOA line: only the flags the line carries are present
MkFlags(v) == [k \in {k \in FlagNames : v[k] # None} |-> v[k]]

\* the TOAs whose name, MJD, frequency and flags are drawn from the given sets
\* (None among a flag's values: the TOA may lack the flag)
ToaSet(N, M, F, D, R, B, P) ==
    {[name |-> n, mjd |-> m, freq |-> f, flags |-> MkFlags(v)] :
        n \in N, m \in M, f \in F, v \in [tobs : D, fe : R, be : B, pta : P]}

\* fromtim.py line 91: the TOAs of one observation share receiver, backend
\* and project
SameSetup(s) ==
    \A i, j \in 1..Len(s) :
        s[i].name = s[j].name =>
            \A k \in {"fe", "be", "pta"} :
                /\ (k \in DOMAIN s[i].flags) = (k \in DOMAIN s[j].flags)
                /\ k \in DOMAIN s[i].flags => s[i].flags[k] = s[j].flags[k]

TimFiles(T, max) ==
    {s \in UNION {[1..n -> T] : n \in 1..max} : SameSetup(s)}

\* the telescope tables of one or two rows; the database keeps the names
\* distinct, and a table without rows has no "name" column to go through
Tables(E) ==
    {<<[name |-> "T1"] @@ e>> : e \in E}
        \cup {<<[name |-> "T1"] @@ e, [name |-> "T2"] @@ f>> : e, f \in E}

\* the arguments of a call; the flag names and the duration are the defaults
ArgSet(R, B, P, T, DB, K) ==
    {[pulsar |-> "J0000", submitter |-> "kaplan", durationflag |-> "tobs",
      duration |-> 1800, receiverflag |-> "fe", receiver |-> r,
      backendflag |-> "be", backend |-> b, projectflag |-> "pta",
      project |-> p, telescope |-> t, db |-> d, apikey |-> k] :
        r \in R, b \in B, p \in P, t \in T, d \in DB, k \in K}

\* the state when fromtim is called
InitTim(Files, Rows, Args, Keys) ==
    /\ API_KEY \in Keys
    /\ args \in Args
    /\ timfile \in Files
    /\ server \in Rows
    /\ pc = "call"
    /\ http = <<>>
    /\ calls = <<>>
    /\ ret = NoneValue
    /\ telescopes = NoneValue
    /\ toas = <<>>
    /\ todo = <<>>
    /\ duration = args.duration
    /\ receiver = args.receiver
    /\ backend = args.backend
    /\ project = args.project
    /\ telescope = args.telescope
    /\ out = <<>>
    /\ log = <<>>

Names == {1, 2}

Entries ==
    {[receivers |-> {"r0"}, backends |-> {"b0", "b1"}],
     [receivers |-> {"r0", "r1"}, backends |-> {"b1"}],
     [receivers |-> {"r1"}, backends |-> {"b0", "b1"}]}

\* receiver, backend and project taken from the flags or from the arguments
Init ==
    InitTim(TimFiles(ToaSet(Names, {100}, {1400}, {None}, {None, "r1"},
                            {None, "b1"}, {None, "p1"}), MaxSetupToas),
            Tables(Entries),
            ArgSet({None, "r0"}, {None, "b0"}, {None, "p0"}, {None, "T0"},
                   {FALSE}, {None}),
            {None})

Next == Begin \/ Iterate \/ Return

Spec == Init /\ [][Next]_vars

OneRow == {[receivers |-> {"r0", "r1"}, backends |-> {"b1"}]}

\* durations, MJDs and frequencies vary per TOA; every observation has one
\* setup, which the table knows
InitDur ==
    InitTim(TimFiles(ToaSet(Names, {100, 101}, {1400, 1500}, {None, "600"},
                            {"r1"}, {"b1"}, {"p1"}), MaxToas),
            Tables(OneRow),
            ArgSet({None}, {None}, {None}, {None}, {FALSE}, {None}),
            {None})

SpecDur == InitDur /\ [][Next]_vars

\* submission on and off, with and without keys; an observation without
\* the receiver flag matches no row
InitDb ==
    InitTim(TimFiles(ToaSet(Names, {100}, {1400}, {None}, {None, "r1"},
                            {"b1"}, {"p1"}), MaxToas),
            Tables(OneRow),
            ArgSet({None}, {None}, {None}, {None, "T0"}, BOOLEAN,
                   {None, "k1"}),
            {None, "k0"})

SpecDb == InitDb /\ [][Next]_vars

(***************************************************************************)
(* A client session: up to MaxCalls direct calls of the API functions.     *)
(***************************************************************************)
StrOf(x) == [type |-> "str", value |-> x]

ListOf(x) == [type |-> "list", value |-> x]

Formats == {"json", "Pandas", "table"}

PulsarsBody == [results |-> <<[name |-> "J0000"]>>]

TelescopesBody == [results |-> <<[name |-> "T1"]>>]

ObservationsBody == [results |-> <<[pulsar |-> "J0000"]>>]

PulsarQueries == {[name |-> NoneType], [name |-> StrOf("J0000")]}

NoFilter ==
    [k \in {"pulsar", "telescope", "receiver", "backend", "project",
            "min_MJD", "max_MJD", "min_frequency", "max_frequency"} |->
        NoneType]

ObsQueries ==
    {NoFilter,
     [NoFilter EXCEPT !["pulsar"] = StrOf("J0000"),
                      !["min_MJD"] = TimeOf(SecondsOf(100)),
                      !["max_frequency"] = Quantity(2, "GHz")],
     [NoFilter EXCEPT !["telescope"] = StrOf("T1"),
                      !["max_MJD"] = FloatOf(SecondsOf(101)),
                      !["min_frequency"] = FloatOf(800)]}

Keys == {None, "k1"}

PulsarPosts ==
    {[name |-> "J0000", ra |-> 10, dec |-> 20, aliases |-> a, key |-> k] :
        a \in {NoneType, ListOf(<<>>), ListOf(<<"B0000">>),
               ListOf(<<"B0000", "PSR0">>)},
        k \in Keys}

ObsPosts ==
    {[pulsar |-> "J0000", telescope |-> "T1", receiver |-> "r1",
      backend |-> "b1", frequency |-> t[3], submitter |-> "kaplan",
      project |-> "p1", start |-> t[1], stop |-> t[2], notes |-> "",
      key |-> k] :
        t \in {<<TimeOf(SecondsOf(100)), TimeOf(SecondsOf(100) + 1800),
                 Quantity(1400, "MHz")>>,
               <<FloatOf(SecondsOf(100)), FloatOf(SecondsOf(100) + 1800),
                 FloatOf(1400)>>},
        k \in Keys}

\* a direct call: its record is added, its requests are issued and its value
\* is returned
Called(api, a, r) ==
    /\ calls' = Append(calls, Call(api, a, r))
    /\ http' = http \o r.reqs
    /\ ret' = r.result
    /\ UNCHANGED <<API_KEY, pc>>
    /\ UNCHANGED timvars

CanCall == pc = "client" /\ Len(calls) < MaxCalls

CallPulsarsGet ==
    /\ CanCall
    /\ \E q \in PulsarQueries, f \in Formats, st \in GetStatuses :
          Called("Pulsars.get", [query |-> q, format |-> f],
                 PulsarsGet(q, f, st, PulsarsBody))

CallTelescopesGet ==
    /\ CanCall
    /\ \E f \in Formats, st \in GetStatuses :
          Called("Telescopes.get", [format |-> f],
                 TelescopesGet(f, st, TelescopesBody))

CallObservationsGet ==
    /\ CanCall
    /\ \E q \in ObsQueries, f \in Formats, st \in GetStatuses :
          Called("Observations.get", [query |-> q, format |-> f],
                 ObservationsGet(q, f, st, ObservationsBody))

CallPulsarsPost ==
    /\ CanCall
    /\ \E c \in PulsarPosts, sts \in [1..3 -> PostStatuses] :
          Called("Pulsars.post", c, PulsarsPost(API_KEY, c, sts))

CallObservationsPost ==
    /\ CanCall
    /\ \E c \in ObsPosts, st \in PostStatuses :
          Called("Observations.post", c, ObservationsPost(API_KEY, c, st))

InitClient ==
    /\ API_KEY \in {None, "k0"}
    /\ pc = "client"
    /\ http = <<>>
    /\ calls = <<>>
    /\ ret = NoneValue
    /\ args \in ArgSet({None}, {None}, {None}, {None}, {FALSE}, {None})
    /\ timfile = <<>>
    /\ server = <<>>
    /\ telescopes = NoneValue
    /\ toas = <<>>
    /\ todo = <<>>
    /\ duration = 1800
    /\ receiver = None
    /\ backend = None
    /\ project = None
    /\ telescope = None
    /\ out = <<>>
    /\ log = <<>>

NextClient ==
    \/ CallPulsarsGet
    \/ CallTelescopesGet
    \/ CallObservationsGet
    \/ CallPulsarsPost
    \/ CallObservationsPost

SpecClient == InitClient /\ [][NextClient]_vars

(***************************************************************************)
(* Properties of fromtim.                                                  *)
(***************************************************************************)
\* the observations logged so far whose telescope is defined
Defined == SelectSeq(log, LAMBDA o : o.telescope # None)

\* the Observations.post calls made so far
Posts == SelectSeq(calls, LAMBDA c : c.api = "Observations.post")

\* the names the tim file holds
FileNames == {toas[i].name : i \in 1..Len(toas)}

\* no TOA of the observation carries the flag
LacksFlag(name, flag) ==
    \A i \in 1..Len(toas) :
        toas[i].name = name => flag \notin DOMAIN toas[i].flags

\* the rows of the telescope table that know the observation's receiver and
\* its backend
MatchingRows(o) ==
    {i \in 1..Len(telescopes.data) :
        /\ o.receiver \in telescopes.data[i].receivers
        /\ o.backend \in telescopes.data[i].backends}

C2_ArgumentsFillMissingFlags ==
    \A k \in 1..Len(log) :
        /\ LacksFlag(log[k].name, args.receiverflag) =>
              log[k].receiver = args.receiver
        /\ LacksFlag(log[k].name, args.backendflag) =>
              log[k].backend = args.backend
        /\ LacksFlag(log[k].name, args.projectflag) =>
              log[k].project = args.project

\* C3: an observation whose TOAs lack the duration flag lasts `duration`
\* seconds, so that its stop is its start plus `duration`, for any number of
\* TOAs and whatever the earlier observations lasted.
C3_DurationArgumentFills ==
    \A k \in 1..Len(log) :
        LacksFlag(log[k].name, args.durationflag) =>
            /\ log[k].duration = args.duration
            /\ log[k].stop.secs = log[k].start.secs + args.duration

\* the k-th line of the text says what the k-th observation with a defined
\* telescope was found to be
LineTells(line, o) ==
    /\ line[1] = o.start.secs
    /\ line[2] = o.stop.secs
    /\ line[3] = args.pulsar
    /\ line[4] = o.project
    /\ line[5] = o.telescope
    /\ line[6] = o.receiver
    /\ line[7] = o.backend
    /\ line[8] = o.frequency.value
    /\ line[9] = args.submitter

\* C4: an observation whose telescope is None gives no line and no
\* Observations.post call: the text is the header followed by exactly one
\* line for each observation whose telescope is defined, in order.
C4_UndefinedTelescopeSkipped ==
    pc \in {"loop", "returned"} =>
        /\ out[1] = Header
        /\ Len(out) = 1 + Len(Defined)
        /\ \A k \in 1..Len(Defined) : LineTells(out[k + 1], Defined[k])
        /\ Len(Posts) <= Len(Defined)
        /\ \A k \in 1..Len(Posts) : Posts[k].args.telescope # None
        /\ pc = "returned" => ret.lines = out

\* a submitting run returned one line for two observations: the first had no
\* telescope, the second had one and was posted
C4_Witness ==
    /\ pc = "returned"
    /\ args.db
    /\ Len(log) = 2
    /\ log[1].telescope = None
    /\ log[2].telescope # None
    /\ Len(ret.lines) = 2
    /\ Len(Posts) = 1

\* the call was given what the line says
PostTells(c, line) ==
    /\ c.args.pulsar = line[3]
    /\ c.args.telescope = line[5]
    /\ c.args.receiver = line[6]
    /\ c.args.backend = line[7]
    /\ c.args.project = line[4]
    /\ to_value_MHz(c.args.frequency) = line[8]
    /\ MjdOf(c.args.start) = line[1]
    /\ MjdOf(c.args.stop) = line[2]
    /\ c.args.submitter = line[9]

\* C5: with db=False no Observations.post call is made; with db=True there is
\* exactly one call per line of the text, in the order of the lines, and it
\* is given the pulsar, telescope, receiver, backend, project, frequency,
\* start, stop and submitter of its line.
C5_SubmitsOnlyWhenAsked ==
    pc \in {"loop", "returned"} =>
        /\ ~args.db => Posts = <<>>
        /\ args.db =>
              /\ Len(Posts) = Len(out) - 1
              /\ \A k \in 1..Len(Posts) : PostTells(Posts[k], out[k + 1])

\* a submitting run returned two lines and made two calls
C5_Witness ==
    /\ pc = "returned"
    /\ args.db
    /\ Len(out) = 3
    /\ Len(Posts) = 2

\* the call did not add the observation: no key, or a status other than 201
Failed(c) ==
    \/ c.result.kind = "None"
    \/ c.result.kind = "response" /\ c.result.status_code # 201

\* the POST requests issued so far
PostRequests == SelectSeq(http, LAMBDA r : r.method = "POST")

\* C8: with db=True a failed Observations.post is not retried and does not
\* stop the run: every observation with a defined telescope, the failed ones
\* included, has its line in the text and exactly one call, which issued at
\* most one request; only a telescope table that could not be fetched ends
\* the run early, and a run that returns has gone through every name.
C8_FailedPostNotRetried ==
    args.db =>
        /\ pc = "raised" => telescopes.kind # "table"
        /\ pc \in {"loop", "returned"} =>
              /\ Len(Posts) = Len(Defined)
              /\ Len(out) = 1 + Len(Defined)
              /\ \A k \in 1..Len(Posts) :
                    /\ Len(Posts[k].reqs) <= 1
                    /\ Posts[k].args.telescope = Defined[k].telescope
                    /\ Posts[k].args.start = Defined[k].start
                    /\ LineTells(out[k + 1], Defined[k])
              /\ Len(PostRequests) <= Len(Posts)
        /\ pc = "returned" => {log[k].name : k \in 1..Len(log)} = FileNames

\* the first of two submissions was answered 400 and the second 201; both
\* lines were returned
C8_Witness ==
    /\ pc = "returned"
    /\ args.db
    /\ Len(Posts) = 2
    /\ Posts[1].result.kind = "response"
    /\ Failed(Posts[1])
    /\ ~Failed(Posts[2])
    /\ Len(ret.lines) = 3
    /\ Len(PostRequests) = 2

\* C10: the TOAs are grouped by name: the observations are gone through in
\* ascending order of distinct name, every TOA belongs to exactly one of
\* them, and the text holds at most one line per distinct name, in that
\* order.
C10_GroupedByName ==
    /\ \A k \in 1..(Len(log) - 1) : log[k].name < log[k + 1].name
    /\ \A k \in 1..Len(log) : log[k].name \in FileNames
    /\ \A k \in 1..Len(log), j \in 1..Len(todo) : log[k].name < todo[j]
    /\ pc = "loop" =>
          {log[k].name : k \in 1..Len(log)}
              \cup {todo[j] : j \in 1..Len(todo)} = FileNames
    /\ pc = "returned" =>
          \A i \in 1..Len(toas) :
              Cardinality({k \in 1..Len(log) : log[k].name = toas[i].name}) = 1
    /\ pc \in {"loop", "returned"} =>
          /\ Len(out) - 1 <= Cardinality(FileNames)
          /\ Len(out) - 1 = Len(Defined)
          /\ \A k \in 1..Len(Defined) : out[k + 1][5] = Defined[k].telescope

\* three TOAs of two names, the names interleaved: two observations, the
\* lower name first, and one line
C10_Witness ==
    /\ pc = "returned"
    /\ Len(toas) = 3
    /\ toas[1].name = 2
    /\ toas[2].name = 1
    /\ toas[3].name = 2
    /\ Len(log) = 2
    /\ log[1].name = 1
    /\ log[2].name = 2
    /\ Len(ret.lines) = 2

\* the durations of the TOAs of an observation: the value of the duration
\* flag, and the `duration` argument for a TOA without the flag
ToaDurations(name) ==
    LET sel == Select(toas, name)
    IN  [i \in 1..Len(sel) |->
            IF args.durationflag \in DOMAIN sel[i].flags
            THEN Float(sel[i].flags[args.durationflag])
            ELSE args.duration]

\* the earliest TOA of the observation, as a Time
Earliest(name) ==
    LET sel == Select(toas, name)
    IN  CHOOSE t \in {SecondsOf(sel[i].mjd) : i \in 1..Len(sel)} :
            \A i \in 1..Len(sel) : t <= SecondsOf(sel[i].mjd)

\* C11: the start of every record is the minimum MJD over the TOAs of its
\* observation, no TOA of the observation is earlier than the start, the stop
\* is the start plus the sum of the per-TOA durations, and so the stop is not
\* before the start.
C11_StartMinStopSum ==
    \A k \in 1..Len(log) :
        /\ log[k].start.secs = Earliest(log[k].name)
        /\ \A i \in 1..Len(toas) :
              toas[i].name = log[k].name =>
                  log[k].start.secs <= SecondsOf(toas[i].mjd)
        /\ log[k].stop.secs = log[k].start.secs + Sum(ToaDurations(log[k].name))
        /\ log[k].stop.secs >= log[k].start.secs

\* the GET requests issued so far
GetRequests == SelectSeq(http, LAMBDA r : r.method = "GET")

\* C13: fromtim fetches the telescope table exactly once, before it goes
\* through any observation and before any POST; when that GET is not
\* answered 200, no Observations.post is made and no observation record is
\* returned.
C13_TableFetchedOnceFirst ==
    /\ pc = "call" => http = <<>> /\ calls = <<>> /\ log = <<>>
    /\ pc # "call" =>
          /\ Len(GetRequests) = 1
          /\ http[1].method = "GET"
          /\ http[1].url = _url \o "telescopes-api/"
          /\ calls[1].api = "Telescopes.get"
          /\ \A k \in 2..Len(calls) : calls[k].api = "Observations.post"
          /\ http[1].status # 200 =>
                /\ Posts = <<>>
                /\ PostRequests = <<>>
                /\ log = <<>>
                /\ Len(out) = 1
                /\ pc # "returned"
                /\ ret = NoneValue

\* a submitting run with a key and a default telescope was answered 404 for
\* the table: it stopped at the first of its two observations, nothing
\* posted and nothing returned
C13_Witness ==
    /\ pc = "raised"
    /\ args.db
    /\ args.apikey # None
    /\ args.telescope # None
    /\ Cardinality(FileNames) = 2
    /\ Len(http) = 1
    /\ http[1].status = 404
    /\ telescopes.kind = "response"
    /\ Posts = <<>>
    /\ ret = NoneValue

(***************************************************************************)
(* Properties of the client.                                               *)
(***************************************************************************)
GetApis == {"Pulsars.get", "Telescopes.get", "Observations.get"}

PostApis == {"Pulsars.post", "Observations.post"}

\* what the server holds behind each GET
BodyOf(api) ==
    CASE api = "Pulsars.get" -> PulsarsBody
      [] api = "Telescopes.get" -> TelescopesBody
      [] api = "Observations.get" -> ObservationsBody

\* C6: Observations.post and Pulsars.post called with key=None while the
\* environment gave no key return None and issue no request at all.
C6_NoKeyNoRequest ==
    API_KEY = None =>
        /\ \A k \in 1..Len(calls) :
              (calls[k].api \in PostApis /\ calls[k].args.key = None) =>
                  /\ calls[k].result = NoneValue
                  /\ calls[k].reqs = <<>>
        /\ (/\ pc = "client"
            /\ calls # <<>>
            /\ calls[Len(calls)].api \in PostApis
            /\ calls[Len(calls)].args.key = None) => ret = NoneValue

\* without any key a pulsar with two aliases and an observation were
\* posted: nothing went out
C6_Witness ==
    /\ API_KEY = None
    /\ Len(calls) = 2
    /\ calls[1].api = "Pulsars.post"
    /\ calls[1].args.key = None
    /\ calls[1].args.aliases = ListOf(<<"B0000", "PSR0">>)
    /\ calls[2].api = "Observations.post"
    /\ calls[2].args.key = None
    /\ http = <<>>
    /\ ret = NoneValue

\* C7: each of the three get functions issues exactly one GET per call; on
\* status 200 it returns the data in the asked format, and on any other
\* status the raw response of that one request.
C7_GetOnceAndReturn ==
    pc = "client" =>
        \A k \in 1..Len(calls) :
            calls[k].api \in GetApis =>
                LET c == calls[k]
                    fmt == Lower(c.args.format)
                IN  /\ Len(c.reqs) = 1
                    /\ c.reqs[1].method = "GET"
                    /\ IF c.reqs[1].status = 200
                       THEN /\ fmt \in {"json", "pandas", "table"}
                            /\ c.result.kind = fmt
                            /\ c.result.data = IF fmt = "json"
                                               THEN BodyOf(c.api)
                                               ELSE BodyOf(c.api).results
                       ELSE c.result = [kind |-> "response",
                                        status_code |-> c.reqs[1].status]

\* observations were fetched as pandas, and then the telescopes were asked
\* for and the server answered 404
C7_Witness ==
    /\ pc = "client"
    /\ Len(calls) = 2
    /\ calls[1].api = "Observations.get"
    /\ calls[1].args.format = "Pandas"
    /\ calls[1].result.kind = "pandas"
    /\ calls[2].api = "Telescopes.get"
    /\ ret = [kind |-> "response", status_code |-> 404]
    /\ Len(http) = 2

\* C9: every POST of Pulsars.post and Observations.post, the alias POSTs
\* included, carries Authorization = "Api-Key <k>", k being the key argument
\* when one is given and the environment's key otherwise; no GET carries an
\* Authorization header.
C9_PostsCarryKey ==
    /\ \A k \in 1..Len(calls) :
          LET c == calls[k]
          IN  IF c.api \in PostApis
              THEN \A i \in 1..Len(c.reqs) :
                      /\ c.reqs[i].method = "POST"
                      /\ c.reqs[i].headers =
                            [Authorization |->
                                "Api-Key " \o (IF c.args.key # None
                                               THEN c.args.key ELSE API_KEY)]
              ELSE \A i \in 1..Len(c.reqs) :
                      /\ c.reqs[i].method = "GET"
                      /\ "Authorization" \notin DOMAIN c.reqs[i].headers
    /\ \A i \in 1..Len(http) :
          (http[i].method = "POST") = ("Authorization" \in DOMAIN http[i].headers)

\* with a key in the environment a pulsar and an alias were posted under
\* another key, and an observation under the environment's
C9_Witness ==
    /\ API_KEY = "k0"
    /\ Len(calls) = 2
    /\ calls[1].api = "Pulsars.post"
    /\ calls[1].args.key = "k1"
    /\ Len(calls[1].reqs) = 2
    /\ calls[2].api = "Observations.post"
    /\ calls[2].args.key = None
    /\ http[3].headers = [Authorization |-> "Api-Key k0"]

\* the aliases a Pulsars.post call was given: none for None
AliasesOf(c) ==
    IF c.args.aliases.type = "NoneType" THEN <<>> ELSE c.args.aliases.value

\* C12: Pulsars.post with a key issues the pulsar POST and then one alias
\* POST per alias, in the order given, whatever the earlier requests were
\* answered; with aliases it returns the list of the 1 + len(aliases)
\* responses in request order, and with aliases None or empty the one pulsar
\* response, no alias POST being issued.
C12_PulsarThenAliases ==
    \A k \in 1..Len(calls) :
        (/\ calls[k].api = "Pulsars.post"
         /\ (calls[k].args.key # None \/ API_KEY # None)) =>
            LET c == calls[k]
                al == AliasesOf(c)
            IN  /\ Len(c.reqs) = 1 + Len(al)
                /\ c.reqs[1].method = "POST"
                /\ c.reqs[1].url = _url \o "pulsars-api/"
                /\ c.reqs[1].body = [name |-> c.args.name, ra |-> c.args.ra,
                                     dec |-> c.args.dec]
                /\ \A i \in 1..Len(al) :
                      /\ c.reqs[i + 1].method = "POST"
                      /\ c.reqs[i + 1].url = _url \o "pulsaraliases-api/"
                      /\ c.reqs[i + 1].body = [name |-> al[i],
                                               pulsar |-> c.args.name]
                /\ IF Len(al) > 0
                   THEN /\ c.result.kind = "list"
                        /\ Len(c.result.items) = 1 + Len(al)
                        /\ \A i \in 1..Len(c.reqs) :
                              c.result.items[i] =
                                  [kind |-> "response",
                                   status_code |-> c.reqs[i].status]
                   ELSE c.result = [kind |-> "response",
                                    status_code |-> c.reqs[1].status]

\* a pulsar with two aliases was refused, its first alias was refused too
\* and its second was added; then a pulsar with an empty alias list was
\* posted in one request
C12_Witness ==
    /\ pc = "client"
    /\ Len(calls) = 2
    /\ calls[1].api = "Pulsars.post"
    /\ calls[1].args.aliases = ListOf(<<"B0000", "PSR0">>)
    /\ Len(calls[1].reqs) = 3
    /\ calls[1].reqs[1].status = 400
    /\ calls[1].reqs[2].status = 400
    /\ calls[1].reqs[3].status = 201
    /\ calls[1].reqs[3].body.name = "PSR0"
    /\ calls[2].api = "Pulsars.post"
    /\ calls[2].args.aliases = ListOf(<<>>)
    /\ Len(calls[2].reqs) = 1
    /\ ret.kind = "response"
    /\ Len(http) = 4

=============================================================================
